---- MODULE Spec2Model ----
(***************************************************************************)
(* State-machine model of sysadmin-ai-next:                                *)
(*   - PolicyEngine   (src/src/sysadmin_ai/policy/engine.py)               *)
(*   - SandboxManager (src/src/sysadmin_ai/sandbox/manager.py)             *)
(* The two objects share no state.  Spec runs the policy engine with the   *)
(* sandbox manager left unconstructed; SandboxSpec runs the sandbox        *)
(* manager with the policy engine left unconstructed.                      *)
(***************************************************************************)
EXTENDS Integers, Sequences, FiniteSets, TLC

VARIABLES
    \* ---- PolicyEngine ----
    rules,          \* self._rules: list of PolicyRule, in insertion order
    use_opa,        \* self.use_opa
    opa_available,  \* self._opa_available
    health,         \* what GET <opa_url>/health did at construction (history)
    call,           \* the last call made on the engine and its inputs (history)
    result,         \* PolicyResult returned by the last evaluate (also the one inside dry_run)
    report,         \* dict returned by the last dry_run
    \* ---- SandboxManager ----
    backend,        \* self.backend
    sandboxes,      \* self._sandboxes: dict id -> Sandbox
    configs,        \* heap of SandboxConfig objects; a Sandbox holds a reference
    next_uuid,      \* number of uuid4() values drawn so far (each one is fresh)
    now,            \* time.time()
    temp_dirs,      \* sandbox directories existing under self._base_temp_dir
    containers,     \* docker containers currently existing
    issued,         \* the ids create_sandbox has returned so far (history)
    sb_call,        \* the last call made on the manager and its inputs (history)
    sb_ret,         \* what that call returned or raised
    threads         \* the call each caller thread is in, and where

policyVars == <<rules, use_opa, opa_available, health, call, result, report>>
sandboxVars == <<backend, sandboxes, configs, next_uuid, now, temp_dirs, containers, issued, sb_call, sb_ret, threads>>
vars == <<rules, use_opa, opa_available, health, call, result, report,
          backend, sandboxes, configs, next_uuid, now, temp_dirs, containers, issued, sb_call, sb_ret, threads>>

(***************************************************************************)
(* Bounds of the model.                                                    *)
(***************************************************************************)
\* add_rule is enabled while fewer than this many rules were appended after the built-in ones
MaxAdded == 2
\* create_sandbox is enabled while at most this many uuid4() values were drawn
MaxUuids == 2
\* the clock stops at this time
MaxTime == 1
\* execute_in_sandbox runs a command while the registered sandboxes have run
\* fewer commands than this
MaxCommands == 2
\* a policy directory holds at most this many rule files
MaxFiles == 2
\* a rule file holds at most this many entries
MaxEntries == 2

(***************************************************************************)
(* Python values.  A field that can hold any JSON value (PolicyResult      *)
(* .allowed on the remote path) is kept as the value's Python repr.        *)
(***************************************************************************)
PyTrue == "True"
PyFalse == "False"
PyNone == "None"
PyBool(b) == IF b THEN PyTrue ELSE PyFalse

\* bool(v): None and False are falsy; True and a non-empty string are truthy.
Truthy(v) == v \in {"True", "'yes'"}

\* `a and b` of Python: a when a is falsy, else b.
PyAnd(a, b) == IF Truthy(a) THEN b ELSE a

(***************************************************************************)
(* PolicyAction, PolicyRule                                                *)
(***************************************************************************)
ALLOW == "allow"
BLOCK == "block"
CONFIRM == "confirm"
LOG == "log"
PolicyAction == {ALLOW, BLOCK, CONFIRM, LOG}

PolicyRule(n, p, a, s) == [name |-> n, pattern |-> p, action |-> a, severity |-> s]

\* re.compile(pattern, re.IGNORECASE) of __post_init__: the patterns of the
\* model that are not regular expressions ("(" is an unterminated group)
InvalidPatterns == {"("}

\* PolicyRule.__post_init__: "ok", or the exception that leaves the
\* constructor, so that no PolicyRule object comes to exist
PostInitLazy(pattern) == "ok"
PostInit(pattern) == IF pattern \in InvalidPatterns THEN "re.error" ELSE "ok"

\* The commands evaluated in the model.
Commands ==
    { "ls -la /tmp",
      "rm -rf /",
      "apt install ufw && ufw --add 22",
      "Test_Command arg1" }

\* re.compile(pattern, re.IGNORECASE).search(command) for every pattern of
\* the model (the twelve built-in ones and those of CustomRules) and every
\* command of Commands: the pairs for which Python's re finds a match.
ReSearch ==
    { <<"rm\\s+-[a-zA-Z]*f[a-zA-Z]*\\s+.*(/\\s*|/\\.\\s*$|/\\*)", "rm -rf /">>,
      <<"\\b(apt|yum|dnf|pacman|pip|npm)\\s+install", "apt install ufw && ufw --add 22">>,
      <<"\\b(iptables|ufw|firewalld)\\s+.*(-A|--add|-D|--delete)", "apt install ufw && ufw --add 22">>,
      <<"test_command", "Test_Command arg1">>,
      <<"test", "Test_Command arg1">>,
      <<"^test", "Test_Command arg1">>,
      <<"command", "Test_Command arg1">>,
      <<"install", "apt install ufw && ufw --add 22">>,
      <<"tmp", "ls -la /tmp">> }

\* PolicyRule.matches
Matches(rule, command) == <<rule.pattern, command>> \in ReSearch

\* PolicyEngine._load_builtin_rules: the list it extends self._rules with.
BuiltinRules ==
    << PolicyRule("rm_rf_root", "rm\\s+-[a-zA-Z]*f[a-zA-Z]*\\s+.*(/\\s*|/\\.\\s*$|/\\*)", BLOCK, "critical"),
       PolicyRule("mkfs_block", "\\bmkfs\\.", BLOCK, "critical"),
       PolicyRule("dd_to_disk", "\\bdd\\s+.*of=/dev/[sh]d", BLOCK, "critical"),
       PolicyRule("shadow_access", "\\bcat\\s+/etc/(shadow|gshadow)", BLOCK, "high"),
       PolicyRule("ssh_key_access", "\\bcat\\s+.*/\\.ssh/id_", BLOCK, "high"),
       PolicyRule("sudo_su", "\\bsudo\\s+su\\b", CONFIRM, "high"),
       PolicyRule("curl_pipe_bash", "curl\\s+.*\\|\\s*(ba)?sh", CONFIRM, "high"),
       PolicyRule("package_install", "\\b(apt|yum|dnf|pacman|pip|npm)\\s+install", CONFIRM, "medium"),
       PolicyRule("service_restart", "\\bsystemctl\\s+(restart|stop)", CONFIRM, "medium"),
       PolicyRule("firewall_modify", "\\b(iptables|ufw|firewalld)\\s+.*(-A|--add|-D|--delete)", CONFIRM, "high"),
       PolicyRule("kubectl_delete", "\\bkubectl\\s+delete\\s+.*--force|--grace-period=0", BLOCK, "high"),
       PolicyRule("kubectl_secret_access", "\\bkubectl\\s+get\\s+secret", BLOCK, "high") >>

\* The PolicyRule objects a caller hands to add_rule in the model.  The
\* dataclass validates neither the name (duplicates allowed) nor the
\* severity (any string).
CustomRules ==
    { PolicyRule("custom_test", "test_command", BLOCK, "medium"),
      PolicyRule("audit_test", "test", LOG, "low"),
      PolicyRule("audit_command", "command", CONFIRM, "low"),
      PolicyRule("critical_test", "^test", CONFIRM, "critical"),
      PolicyRule("custom_test", "install", ALLOW, "critical"),
      PolicyRule("odd_severity", "tmp", BLOCK, "urgent") }

\* The arguments of a PolicyRule(...) call of the model whose pattern is not
\* a regular expression.
InvalidRuleArgs == { PolicyRule("unbalanced", "(", BLOCK, "high") }

\* The PolicyRule(...) calls of the model: the invalid one and a valid one.
RuleArgs == InvalidRuleArgs \cup { PolicyRule("custom_test", "test_command", BLOCK, "medium") }

\* The names a caller hands to remove_rule in the model.
RemoveNames == {"package_install", "custom_test", "audit_test", "no_such_rule"}

(***************************************************************************)
(* PolicyResult                                                            *)
(***************************************************************************)
\* A dict with string keys, as a function from its keys to its values.
EmptyDict == [k \in {} |-> ""]

\* the dict display {**first, **second}: a key of both takes the value of
\* the later one
DictMerge(first, second) ==
    [k \in DOMAIN first \cup DOMAIN second |-> IF k \in DOMAIN second THEN second[k] ELSE first[k]]

\* A context argument of evaluate that carries a "command" key of its own.
CommandContext == [user |-> "alice", command |-> "ls -la /tmp"]

\* The (command, context) pairs a caller passes to evaluate in the model:
\* every command with no context (None, taken as {}), and one with
\* CommandContext.  dry_run, which hands its context to evaluate as it is,
\* is called with no context.
EvaluateArgs ==
    { <<c, EmptyDict>> : c \in Commands } \cup { <<"rm -rf /", CommandContext>> }

\* rule is <<>> for None and <<r>> for a reference to r; rule_pos is the
\* position in self._rules of the object referred to (0 for None).
PolicyResult(al, ac, r, pos, msg, ctx) ==
    [allowed |-> al, action |-> ac, rule |-> r, rule_pos |-> pos, message |-> msg,
     context |-> ctx]

NoResult == PolicyResult(PyNone, "", <<>>, 0, <<>>, EmptyDict)

\* PolicyResult.requires_confirmation
RequiresConfirmation(res) == res.action = CONFIRM

(***************************************************************************)
(* PolicyEngine._evaluate_local                                            *)
(***************************************************************************)
\* the key of sorted(): {"critical": 0, "high": 1, "medium": 2, "low": 3}.get(r.severity, 4)
SeverityRank(severity) ==
    CASE severity = "critical" -> 0
      [] severity = "high" -> 1
      [] severity = "medium" -> 2
      [] severity = "low" -> 3
      [] OTHER -> 4

Positions(rs) == [i \in 1..Len(rs) |-> i]

\* the positions of the rules of rank k, in list order
RankBucket(rs, k) ==
    LET HasRank(i) == SeverityRank(rs[i].severity) = k
    IN SelectSeq(Positions(rs), HasRank)

\* sorted(self._rules, key=rank), as the positions of self._rules in sorted
\* order.  sorted() is stable: equal keys keep their list order.
SortedUnsorted(rs) == Positions(rs)
SortedReversedTies(rs) ==
    LET Rev(s) == [i \in 1..Len(s) |-> s[Len(s) + 1 - i]]
    IN Rev(RankBucket(rs, 0)) \o Rev(RankBucket(rs, 1)) \o Rev(RankBucket(rs, 2))
         \o Rev(RankBucket(rs, 3)) \o Rev(RankBucket(rs, 4))
Sorted(rs) ==
    RankBucket(rs, 0) \o RankBucket(rs, 1) \o RankBucket(rs, 2)
      \o RankBucket(rs, 3) \o RankBucket(rs, 4)

\* allowed=rule.action in (ALLOW, LOG, CONFIRM)
AllowedOf(action) == PyBool(action \in {ALLOW, LOG, CONFIRM})

\* context={"command": command, **context}
EvaluateLocal(rs, command, context) ==
    LET IsHit(i) == Matches(rs[i], command)
        hits == SelectSeq(Sorted(rs), IsHit)
        ctx == DictMerge([command |-> command], context)
    IN IF hits # <<>>
       THEN LET rule == rs[hits[1]]
            IN PolicyResult(AllowedOf(rule.action), rule.action, <<rule>>, hits[1],
                            <<"Policy", rule.name>>, ctx)
       ELSE PolicyResult(PyTrue, ALLOW, <<>>, 0, <<"No policy restrictions apply">>, ctx)

(***************************************************************************)
(* The remote decision service (OPA), as seen through httpx                *)
(***************************************************************************)
\* What httpx.get(<opa_url>/health) does: raises, or returns a status.
NoProbe == [made |-> FALSE, raised |-> FALSE, status |-> 0]
HealthOutcomes ==
    { [made |-> TRUE, raised |-> TRUE, status |-> 0],
      [made |-> TRUE, raised |-> FALSE, status |-> 200],
      [made |-> TRUE, raised |-> FALSE, status |-> 503] }

\* What httpx.post(<opa_url>/v1/data/sysadmin_ai/allow) does: raises, or
\* returns a status and a body.  Bodies:
\*   "true"      {"result": true}        "false"   {"result": false}
\*   "absent"    {}                      "null"    {"result": null}
\*   "string"    {"result": "yes"}       "list"    []   (JSON, not an object)
\*   "malformed" not JSON
NoResponse == [raised |-> FALSE, status |-> 0, body |-> ""]
Bodies == {"true", "false", "absent", "null", "string", "list", "malformed"}
Responses ==
    { [raised |-> TRUE, status |-> 0, body |-> ""],
      [raised |-> FALSE, status |-> 500, body |-> "malformed"] }
    \cup { [raised |-> FALSE, status |-> 200, body |-> b] : b \in Bodies }

\* response.json() raises on a body that is not JSON; result.get raises
\* AttributeError on a JSON value that is not an object.
BodyRaises(body) == body \in {"malformed", "list"}

\* response.json().get("result", False)
ResultField(body) ==
    CASE body = "true" -> PyTrue
      [] body = "false" -> PyFalse
      [] body = "absent" -> PyFalse
      [] body = "null" -> PyNone
      [] body = "string" -> "'yes'"

\* PolicyEngine._check_opa_availability: the value it leaves in self._opa_available
CheckOpaAvailabilityAnyStatus(h) == ~h.raised
CheckOpaAvailability(h) == ~h.raised /\ h.status = 200

\* input_data["input"] of the request: {"command": command, **context}
OpaInput(command, context) == DictMerge([command |-> command], context)

\* PolicyEngine._evaluate_opa; the contexts are {"command": command,
\* "error": str(e), **context} and {"command": command, "opa_result":
\* result, **context}
EvaluateOpa(rs, command, context, resp) ==
    LET failed == PolicyResult(PyFalse, BLOCK, <<>>, 0, <<"OPA evaluation failed">>,
                               DictMerge([command |-> command, error |-> "str(e)"], context))
    IN IF resp.raised
       THEN failed
       ELSE IF resp.status = 200
            THEN IF BodyRaises(resp.body)
                 THEN failed
                 ELSE LET allowed == ResultField(resp.body)
                      IN PolicyResult(allowed,
                                      IF Truthy(allowed) THEN ALLOW ELSE BLOCK,
                                      <<>>, 0,
                                      IF Truthy(allowed) THEN <<"OPA policy evaluation">>
                                                         ELSE <<"OPA policy denied">>,
                                      DictMerge([command |-> command, opa_result |-> resp.body],
                                                context))
            ELSE EvaluateLocal(rs, command, context)

\* PolicyEngine.evaluate: whether it goes to the remote service
UsesOpa(uo, av) == uo /\ av

\* PolicyEngine.evaluate
EvaluateResult(rs, uo, av, command, context, resp) ==
    IF UsesOpa(uo, av)
    THEN EvaluateOpa(rs, command, context, resp)
    ELSE EvaluateLocal(rs, command, context)

\* PolicyEngine.dry_run: the dict built from the PolicyResult res
AllMatching(rs, command) ==
    LET IsHit(r) == Matches(r, command)
        hits == SelectSeq(rs, IsHit)
    IN [k \in 1..Len(hits) |->
          [name |-> hits[k].name, action |-> hits[k].action, severity |-> hits[k].severity]]

NoReport ==
    [command |-> "", would_execute |-> PyNone, requires_confirmation |-> PyNone, action |-> "",
     rule_matched |-> PyNone, message |-> <<>>, all_matching_rules |-> <<>>]

DryRunReport(rs, command, res) ==
    [command |-> command,
     would_execute |-> PyAnd(res.allowed, PyBool(~RequiresConfirmation(res))),
     requires_confirmation |-> PyBool(RequiresConfirmation(res)),
     action |-> res.action,
     rule_matched |-> IF res.rule # <<>> THEN res.rule[1].name ELSE PyNone,
     message |-> res.message,
     all_matching_rules |-> AllMatching(rs, command)]

\* PolicyEngine.remove_rule: the list it leaves, and what it returns
HasName(rs, name) == \E i \in 1..Len(rs) : rs[i].name = name
LastNamed(rs, name) == CHOOSE i \in 1..Len(rs) : rs[i].name = name /\ \A j \in (i + 1)..Len(rs) : rs[j].name # name
FirstNamed(rs, name) == CHOOSE i \in 1..Len(rs) : rs[i].name = name /\ \A j \in 1..(i - 1) : rs[j].name # name
RemoveAt(rs, i) == [k \in 1..(Len(rs) - 1) |-> IF k < i THEN rs[k] ELSE rs[k + 1]]
RemoveRuleList(rs, name) == IF HasName(rs, name) THEN RemoveAt(rs, FirstNamed(rs, name)) ELSE rs

(***************************************************************************)
(* PolicyEngine._load_policy_files                                         *)
(***************************************************************************)
\* An entry of the "rules" list of a rule file (rule_data): described is
\* whether it has the "description" key, action is the string under "action".
RuleData(n, described, p, a, s) ==
    [name |-> n, described |-> described, pattern |-> p, action |-> a, severity |-> s]

\* the entries of the model: two well-formed ones, one without description,
\* one whose action is no PolicyAction value, one whose pattern is invalid
FileEntries ==
    { RuleData("file_rule_a", TRUE, "test", BLOCK, "high"),
      RuleData("file_rule_b", TRUE, "tmp", LOG, "low"),
      RuleData("no_description", FALSE, "test", BLOCK, "high"),
      RuleData("unknown_action", TRUE, "test", "deny", "high"),
      RuleData("invalid_regex", TRUE, "(", BLOCK, "high") }

\* lines 198-205: the exception building the PolicyRule of an entry raises
\* (rule_data["description"], PolicyAction(...), __post_init__), or "ok"
BuildRule(rule_data) ==
    CASE ~rule_data.described -> "KeyError"
      [] rule_data.action \notin PolicyAction -> "ValueError"
      [] PostInit(rule_data.pattern) # "ok" -> PostInit(rule_data.pattern)
      [] OTHER -> "ok"

\* a rule file: text that is not JSON, or {"rules": [...]}
PolicyFile(is_json, entries) == [json |-> is_json, rules |-> entries]

\* the sequences over S of length at most n
SeqsUpTo(S, n) == UNION {[1..k -> S] : k \in 0..n}

PolicyFiles ==
    {PolicyFile(FALSE, <<>>)} \cup {PolicyFile(TRUE, es) : es \in SeqsUpTo(FileEntries, MaxEntries)}

\* the policy directories of the model, each as the list of its *.json
\* files in the order glob yields them
PolicyDirs == SeqsUpTo(PolicyFiles, MaxFiles)

\* except (json.JSONDecodeError, KeyError, ValueError)
CaughtByLoader == {"JSONDecodeError", "KeyError", "ValueError"}

\* lines 194-206, the body of the try for one file: the rules appended, and
\* the exception that ended the body ("" when it ran to its end)
RECURSIVE LoadEntries(_, _)
LoadEntries(rs, entries) ==
    IF entries = <<>>
    THEN [rules |-> rs, error |-> ""]
    ELSE LET rule_data == Head(entries)
         IN IF BuildRule(rule_data) # "ok"
            THEN [rules |-> rs, error |-> BuildRule(rule_data)]
            ELSE LoadEntries(
                   Append(rs, PolicyRule(rule_data.name, rule_data.pattern,
                                         rule_data.action, rule_data.severity)),
                   Tail(entries))

LoadFile(rs, file) ==
    IF file.json THEN LoadEntries(rs, file.rules) ELSE [rules |-> rs, error |-> "JSONDecodeError"]

\* lines 192-208, the loop over the files: an exception the except clause
\* names ends that file and the loop goes on; any other leaves the method
RECURSIVE LoadPolicyFiles(_, _)
LoadPolicyFiles(rs, files) ==
    IF files = <<>>
    THEN [rules |-> rs, error |-> ""]
    ELSE LET loaded == LoadFile(rs, Head(files))
         IN IF loaded.error = "" \/ loaded.error \in CaughtByLoader
            THEN LoadPolicyFiles(loaded.rules, Tail(files))
            ELSE loaded

(***************************************************************************)
(* PolicyEngine: construction and operations                               *)
(***************************************************************************)
\* files: the rule files of the policy directory (construction only);
\* pattern: the pattern argument of a PolicyRule(...) call; context: the
\* context argument of evaluate (None taken as {}); input: the "input" of the
\* request posted to the remote service
Call(op, command, name, resp, posted, returned) ==
    [op |-> op, command |-> command, name |-> name, response |-> resp,
     posted |-> posted, returned |-> returned, files |-> <<>>, pattern |-> "",
     context |-> EmptyDict, input |-> EmptyDict]

\* the call record of an evaluate, alone or inside dry_run
EvaluateCall(op, command, context, resp, posted) ==
    [Call(op, command, "", resp, posted, PyNone)
        EXCEPT !.context = context,
               !.input = IF posted THEN OpaInput(command, context) ELSE EmptyDict]

\* PolicyEngine.__init__ with a policy directory holding no rule file.
PolicyInit ==
    /\ rules = BuiltinRules
    /\ use_opa \in BOOLEAN
    /\ health \in (IF use_opa THEN HealthOutcomes ELSE {NoProbe})
    /\ opa_available = (use_opa /\ CheckOpaAvailability(health))
    /\ call = Call("init", "", "", NoResponse, FALSE, PyNone)
    /\ result = NoResult
    /\ report = NoReport

\* the engine was never constructed
PolicyIdle ==
    /\ rules = <<>>
    /\ use_opa = FALSE
    /\ health = NoProbe
    /\ opa_available = FALSE
    /\ call = Call("none", "", "", NoResponse, FALSE, PyNone)
    /\ result = NoResult
    /\ report = NoReport

\* PolicyEngine.__init__ at line 86, with a policy directory holding rule
\* files: the built-in rules are loaded, the files are not yet
LoadInit ==
    /\ rules = BuiltinRules
    /\ use_opa = FALSE
    /\ health = NoProbe
    /\ opa_available = FALSE
    /\ \E files \in PolicyDirs :
          call = [Call("_load_policy_files", "", "", NoResponse, FALSE, PyNone) EXCEPT !.files = files]
    /\ result = NoResult
    /\ report = NoReport

\* PolicyEngine.__init__, lines 86-89 with use_opa False: _load_policy_files
\* runs, and the constructor returns or is left by its exception
LoadRuleFiles ==
    LET loaded == LoadPolicyFiles(rules, call.files)
    IN /\ call.op = "_load_policy_files"
       /\ rules' = loaded.rules
       /\ call' = [call EXCEPT !.op = "init",
                                !.returned = IF loaded.error = "" THEN PyNone ELSE loaded.error]
       /\ UNCHANGED <<use_opa, opa_available, health, result, report>>
       /\ UNCHANGED sandboxVars

\* the responses the remote service can give to this call: one is drawn
\* only when the call posts a request
ResponsesFor(uo, av) == IF UsesOpa(uo, av) THEN Responses ELSE {NoResponse}

Evaluate(command, context, resp) ==
    /\ resp \in ResponsesFor(use_opa, opa_available)
    /\ result' = EvaluateResult(rules, use_opa, opa_available, command, context, resp)
    /\ call' = EvaluateCall("evaluate", command, context, resp, UsesOpa(use_opa, opa_available))
    /\ report' = NoReport
    /\ UNCHANGED <<rules, use_opa, opa_available, health>>
    /\ UNCHANGED sandboxVars

DryRun(command, context, resp) ==
    /\ resp \in ResponsesFor(use_opa, opa_available)
    /\ result' = EvaluateResult(rules, use_opa, opa_available, command, context, resp)
    /\ report' = DryRunReport(rules, command, result')
    /\ call' = EvaluateCall("dry_run", command, context, resp, UsesOpa(use_opa, opa_available))
    /\ UNCHANGED <<rules, use_opa, opa_available, health>>
    /\ UNCHANGED sandboxVars

\* the rules of the list that are not built-in ones
Added(rs) == {i \in 1..Len(rs) : \A k \in 1..Len(BuiltinRules) : rs[i] # BuiltinRules[k]}

\* PolicyRule(name, description, pattern, action, severity) called by the
\* caller: __post_init__ compiles the pattern, and its exception leaves the
\* constructor
NewPolicyRule(args) ==
    /\ call' = [Call("PolicyRule", "", args.name, NoResponse, FALSE,
                     IF PostInit(args.pattern) = "ok" THEN PyNone ELSE PostInit(args.pattern))
                  EXCEPT !.pattern = args.pattern]
    /\ result' = NoResult
    /\ report' = NoReport
    /\ UNCHANGED <<rules, use_opa, opa_available, health>>
    /\ UNCHANGED sandboxVars

\* add_rule takes a PolicyRule object: one whose constructor returned
AddRule(rule) ==
    /\ PostInit(rule.pattern) = "ok"
    /\ Cardinality(Added(rules)) < MaxAdded
    /\ rules' = Append(rules, rule)
    /\ call' = Call("add_rule", "", rule.name, NoResponse, FALSE, PyNone)
    /\ result' = NoResult
    /\ report' = NoReport
    /\ UNCHANGED <<use_opa, opa_available, health>>
    /\ UNCHANGED sandboxVars

RemoveRule(name) ==
    /\ rules' = RemoveRuleList(rules, name)
    /\ call' = Call("remove_rule", "", name, NoResponse, FALSE, PyBool(HasName(rules, name)))
    /\ result' = NoResult
    /\ report' = NoReport
    /\ UNCHANGED <<use_opa, opa_available, health>>
    /\ UNCHANGED sandboxVars

\* _evaluate_opa reads the command only to copy it (request, context) and to
\* fall back on a status other than 200.  Every call of the model can meet a
\* request that raises, a 500 and a 200 {"result": true}; the other bodies
\* are met by evaluate("ls -la /tmp").
PlainResponses ==
    { NoResponse,
      [raised |-> TRUE, status |-> 0, body |-> ""],
      [raised |-> FALSE, status |-> 500, body |-> "malformed"],
      [raised |-> FALSE, status |-> 200, body |-> "true"] }

Next ==
    \/ \E args \in EvaluateArgs, resp \in Responses \cup {NoResponse} :
           /\ resp \in PlainResponses \/ args = <<"ls -la /tmp", EmptyDict>>
           /\ Evaluate(args[1], args[2], resp)
    \/ \E c \in Commands, resp \in PlainResponses : DryRun(c, EmptyDict, resp)
    \/ \E args \in RuleArgs : NewPolicyRule(args)
    \/ \E r \in CustomRules \cup InvalidRuleArgs : AddRule(r)
    \/ \E n \in RemoveNames : RemoveRule(n)

(***************************************************************************)
(* SandboxConfig, Sandbox                                                  *)
(***************************************************************************)
\* SandboxConfig.command_timeout: int = 30
DefaultCommandTimeout == 30

\* A user id is a given string or str(uuid.uuid4()); uuid is 0 for a given one.
GivenUser(name) == [name |-> name, uuid |-> 0]
UuidUser(n) == [name |-> "", uuid |-> n]
NoUser == [name |-> "", uuid |-> 0]

\* the fields of SandboxConfig the manager reads or writes
SandboxConfig(user, timeout) == [user_id |-> user, command_timeout |-> timeout]

\* f"sandbox-{config.user_id}-{uuid.uuid4().hex[:8]}"
SandboxId(user, n) == [user |-> user, uuid |-> n]
NoId == SandboxId(NoUser, 0)

\* an id no create_sandbox call ever returned
NonExistentId == SandboxId(GivenUser("non-existent"), 0)

\* Sandbox(id=sandbox_id, config=config): created_at and last_activity
\* default to time.time(), command_count to 0, the runtime handles to None.
\* config is a reference into the heap of SandboxConfig objects.
Sandbox(sid, cfg, t) ==
    [id |-> sid, config |-> cfg, last_activity |-> t, command_count |-> 0,
     temp_dir |-> FALSE, docker_container |-> FALSE, k8s_pod |-> FALSE]

(***************************************************************************)
(* What a call on the manager returned or raised                           *)
(***************************************************************************)
\* kind: "none" | "returned" (None) | "sandbox" | "result" | "count" | "list" | "raised"
\* found: whether the id of the call was registered when the call started
\* dispatched: whether the call reached a backend run
\* after_timeout: whether the call before it, on the same id, returned timed_out
\* running: the processes the call started that are still running
\* env: the names of the environment variables the command was given
NoRet ==
    [kind |-> "none", found |-> FALSE, dispatched |-> FALSE, error |-> "", id |-> NoId,
     exit_code |-> 0, timed_out |-> FALSE, stdout |-> "", stderr |-> "",
     timeout |-> 0, count |-> 0, ids |-> {}, after_timeout |-> FALSE, running |-> {}, env |-> {}]

Returned(found) == [NoRet EXCEPT !.kind = "returned", !.found = found]
Raised(error, found) == [NoRet EXCEPT !.kind = "raised", !.error = error, !.found = found]
ReturnedSandbox(sid) == [NoRet EXCEPT !.kind = "sandbox", !.id = sid]
ReturnedCount(n) == [NoRet EXCEPT !.kind = "count", !.count = n]
ReturnedList(ids) == [NoRet EXCEPT !.kind = "list", !.ids = ids]
\* the dict a backend run returns; timeout is the timeout the run was given
ExecutionResult(out, err, code, timed_out, timeout) ==
    [NoRet EXCEPT !.kind = "result", !.found = TRUE, !.dispatched = TRUE, !.stdout = out,
                  !.stderr = err, !.exit_code = code, !.timed_out = timed_out, !.timeout = timeout]

\* backend, k8s_secret, docker_info: the argument of the constructor and what
\* its probes found; run: what the backend run of an execute_in_sandbox met
SbCall(op, sid, user, cfg, timeout, command, max_idle) ==
    [op |-> op, id |-> sid, user_id |-> user, config |-> cfg, timeout |-> timeout,
     command |-> command, max_idle_seconds |-> max_idle,
     backend |-> "", k8s_secret |-> FALSE, docker_info |-> "", run |-> ""]
NoSbCall == SbCall("none", NoId, PyNone, [kind |-> "none", ref |-> 0, timeout |-> 0], <<>>, "", 0)

\* The caller threads of the model, and the call a thread is in.
\* execute_in_sandbox: pc is "count" (after line 214), "store" (inside the +=
\* of line 215, with the value it read), "dispatch" (after line 215),
\* "running" (inside the backend run).
\* destroy_sandbox: pc is "teardown" (after the lookup of 319-321 found the
\* sandbox), "unregister" (after the clean-up of 324-341, before the del of 343).
\* cleanup_expired: pc is "sweep" (in the loop of 367-368, between two
\* destroy_sandbox calls); expired holds the ids the loop has still to
\* destroy, count is len(expired), and sweeping tells a destroy_sandbox
\* called by the loop from one called by the caller.
\* pc is "idle" when the thread is in no call.
Threads == {1, 2}
IdleThread ==
    [pc |-> "idle", id |-> NoId, command |-> "", timeout |-> 0, read |-> 0,
     expired |-> {}, count |-> 0, sweeping |-> FALSE, max_idle_seconds |-> 0]
NoThreads == [t \in Threads |-> IdleThread]

(***************************************************************************)
(* SandboxManager.__init__ / _detect_backend                               *)
(***************************************************************************)
\* `docker info` run with check=True and timeout=5: "ok", "nonzero"
\* (CalledProcessError), "timeout" (TimeoutExpired), "missing" (FileNotFoundError)
DockerInfoOutcomes == {"ok", "nonzero", "timeout", "missing"}

DetectBackendNoFallback(arg, k8s_secret, docker_info) ==
    IF arg # "auto" THEN arg
    ELSE IF k8s_secret THEN "k8s"
    ELSE "docker"
DetectBackend(arg, k8s_secret, docker_info) ==
    IF arg # "auto" THEN arg
    ELSE IF k8s_secret THEN "k8s"
    ELSE IF docker_info = "ok" THEN "docker"
    ELSE "chroot"

EmptyRegistry == [x \in {} |-> Sandbox(NoId, 0, 0)]

\* the backend argument of the constructor
BackendArgs == {"auto", "docker", "k8s", "chroot"}

\* whether _detect_backend runs `docker info`
ProbesDocker(arg, k8s_secret) == arg = "auto" /\ ~k8s_secret

SandboxInit ==
    /\ \E arg \in BackendArgs, k8s_secret \in BOOLEAN, docker_info \in DockerInfoOutcomes \cup {""} :
          /\ (docker_info = "") <=> ~ProbesDocker(arg, k8s_secret)
          /\ backend = DetectBackend(arg, k8s_secret, docker_info)
          /\ sb_call = [NoSbCall EXCEPT !.op = "init", !.backend = arg,
                                        !.k8s_secret = k8s_secret, !.docker_info = docker_info]
    /\ threads = NoThreads
    /\ sandboxes = EmptyRegistry
    /\ configs = <<>>
    /\ next_uuid = 0
    /\ now = 0
    /\ temp_dirs = {}
    /\ containers = {}
    /\ issued = {}
    /\ sb_ret = Returned(FALSE)

\* the manager was never constructed
SandboxIdle ==
    /\ backend = ""
    /\ sandboxes = EmptyRegistry
    /\ configs = <<>>
    /\ next_uuid = 0
    /\ now = 0
    /\ temp_dirs = {}
    /\ containers = {}
    /\ issued = {}
    /\ sb_call = NoSbCall
    /\ sb_ret = NoRet
    /\ threads = NoThreads

(***************************************************************************)
(* SandboxManager.create_sandbox                                           *)
(***************************************************************************)
\* The config argument: None, a SandboxConfig the caller has just built
\* (with its command_timeout), or one the caller built earlier (a reference).
\* The caller of the model builds one SandboxConfig(command_timeout=1) and
\* passes it to any number of calls.
CallerBuilt(heap) == {k \in 1..Len(heap) : heap[k].command_timeout # DefaultCommandTimeout}
ConfigArgs(heap) ==
    { [kind |-> "none", ref |-> 0, timeout |-> 0] }
    \cup (IF CallerBuilt(heap) = {} THEN { [kind |-> "new", ref |-> 0, timeout |-> 1] } ELSE {})
    \cup { [kind |-> "ref", ref |-> k, timeout |-> 0] : k \in CallerBuilt(heap) }

\* the user_id argument: None, or a string
UserArgs == {PyNone, "test"}
\* the user_id a caller passes along with a SandboxConfig it passed to an
\* earlier call: another user's than the one the config was first used for
ReuseUserArgs == {"other"}

\* `docker run -d ...` with check=True: "ok", "nonzero" (CalledProcessError,
\* re-raised as RuntimeError), "missing" (FileNotFoundError, not caught)
DockerRunOutcomes == {"ok", "nonzero", "missing"}

\* config = config or SandboxConfig(): the heap after the call's allocation,
\* and the reference the call works on
HeapWith(heap, cfg) ==
    CASE cfg.kind = "none" -> Append(heap, SandboxConfig(NoUser, DefaultCommandTimeout))
      [] cfg.kind = "new" -> Append(heap, SandboxConfig(NoUser, cfg.timeout))
      [] cfg.kind = "ref" -> heap
ConfigRef(heap, cfg) == IF cfg.kind = "ref" THEN cfg.ref ELSE Len(heap) + 1

\* self._sandboxes[sandbox_id] = sandbox
Register(sbs, sid, sb) == [x \in DOMAIN sbs \cup {sid} |-> IF x = sid THEN sb ELSE sbs[x]]

\* the registry create_sandbox leaves: line 130 is reached only when the
\* backend's _create_*_sandbox returned
CreateRegistryAlways(sbs, sid, sb, failed) == Register(sbs, sid, sb)
CreateRegistry(sbs, sid, sb, failed) == IF failed THEN sbs ELSE Register(sbs, sid, sb)

CreateSandbox(user, cfg, docker_run) ==
    LET draws == IF user = PyNone THEN 2 ELSE 1
        \* config.user_id = user_id or str(uuid.uuid4())
        uid == IF user = PyNone THEN UuidUser(next_uuid + 1) ELSE GivenUser(user)
        ref == ConfigRef(configs, cfg)
        heap == [HeapWith(configs, cfg) EXCEPT ![ref].user_id = uid]
        sid == SandboxId(uid, next_uuid + draws)
        sb == Sandbox(sid, ref, now)
        failed == backend = "docker" /\ docker_run # "ok"
        \* the runtime handles the backend's _create_*_sandbox sets
        made == [sb EXCEPT !.temp_dir = backend \in {"docker", "chroot"},
                           !.docker_container = (backend = "docker"),
                           !.k8s_pod = (backend = "k8s")]
    IN /\ next_uuid + draws <= MaxUuids
       /\ cfg \in ConfigArgs(configs)
       /\ docker_run \in (IF backend = "docker" THEN DockerRunOutcomes ELSE {"ok"})
       /\ configs' = heap
       /\ next_uuid' = next_uuid + draws
       /\ temp_dirs' = IF backend \in {"docker", "chroot"} THEN temp_dirs \cup {sid} ELSE temp_dirs
       /\ sb_call' = [SbCall("create_sandbox", NoId, PyNone, NoSbCall.config, <<>>, "", 0)
                         EXCEPT !.run = docker_run]
       /\ sandboxes' = CreateRegistry(sandboxes, sid, made, failed)
       /\ IF failed
          THEN /\ sb_ret' = [Raised(IF docker_run = "nonzero" THEN "RuntimeError" ELSE "FileNotFoundError", FALSE)
                                EXCEPT !.id = sid]
               /\ UNCHANGED <<containers, issued>>
          ELSE /\ containers' = IF backend = "docker" THEN containers \cup {sid} ELSE containers
               /\ issued' = issued \cup {sid}
               /\ sb_ret' = ReturnedSandbox(sid)
       /\ UNCHANGED <<backend, now, threads>>
       /\ UNCHANGED policyVars

(***************************************************************************)
(* SandboxManager.execute_in_sandbox                                       *)
(***************************************************************************)
\* self._sandboxes.get(sandbox_id) finds a Sandbox
IsRegistered(sbs, sid) == sid \in DOMAIN sbs

\* The commands run in the model: seconds the command takes when it is
\* left to finish, its exit code and what it prints.
SandboxCommands == {"echo hi", "false", "sleep 2"}
CommandSeconds(command) == IF command = "sleep 2" THEN 2 ELSE 0
CommandExit(command) == IF command = "false" THEN 1 ELSE 0
CommandStdout(command) == IF command = "echo hi" THEN "hi\n" ELSE ""

\* the timeout argument: <<>> for None, <<t>> for the int t
TimeoutArgs == {<<>>, <<0>>, <<1>>}

\* What the backend run meets: "ok" (the command is run), "oserror" (the
\* working directory cannot be made or the process cannot be spawned:
\* workdir.mkdir / subprocess.run raise an OSError), "gone" (docker only:
\* `docker exec` finds no such container and exits 1)
RunOutcomes == {"ok", "oserror", "gone"}

\* the (command, timeout) pairs a caller passes in the model, each with what
\* the backend run meets
ExecuteArgs ==
    { <<"echo hi", <<>>, "ok">>, <<"false", <<0>>, "ok">>, <<"sleep 2", <<1>>, "ok">>,
      <<"echo hi", <<>>, "oserror">>, <<"echo hi", <<>>, "gone">> }

\* timeout = timeout or sandbox.config.command_timeout
EffectiveTimeout(arg, configured) ==
    IF arg # <<>> /\ arg[1] # 0 THEN arg[1] ELSE configured

\* subprocess.run(..., timeout=timeout) of _execute_docker and
\* _execute_chroot: the command finishes, or TimeoutExpired is caught
RunResultNoTimeout(command, timeout) ==
    ExecutionResult(CommandStdout(command), "", CommandExit(command), FALSE, timeout)
RunResult(command, timeout) ==
    IF CommandSeconds(command) > timeout
    THEN ExecutionResult("", "Command timed out", -1, TRUE, timeout)
    ELSE ExecutionResult(CommandStdout(command), "", CommandExit(command), FALSE, timeout)

\* the seconds the run takes
RunSeconds(command, timeout) ==
    IF CommandSeconds(command) > timeout THEN timeout ELSE CommandSeconds(command)

\* SandboxManager._execute_k8s: a placeholder, nothing is run
ExecuteK8s(timeout) ==
    ExecutionResult("", "K8s execution not fully implemented", 1, FALSE, timeout)

\* an exception of the backend run that no except clause of _execute_docker
\* or _execute_chroot names
BackendRaised(error) == [Raised(error, TRUE) EXCEPT !.dispatched = TRUE]

\* The processes a backend run starts: the child of subprocess.run (the
\* `docker exec` client of 234-239, the `sh -c` of shell=True at 294-296) and
\* the command, which the docker daemon starts inside the container and the
\* shell forks.
Started(b) == IF b = "docker" THEN {"docker exec", "command"} ELSE {"sh -c", "command"}

\* subprocess.run on TimeoutExpired: kill() and wait() on its own child,
\* then the exception goes to the except clause of 255 / 309, which signals
\* nothing
Killed(b) == IF b = "docker" THEN {"docker exec"} ELSE {"sh -c"}

\* the result of a run with the processes the run leaves behind
AfterKill(b, res) == [res EXCEPT !.running = IF res.timed_out THEN Started(b) \ Killed(b) ELSE {}]

\* SandboxManager._execute_docker
ExecuteDocker(command, timeout, run) ==
    CASE run = "oserror" -> BackendRaised("FileNotFoundError")
      [] run = "gone" -> ExecutionResult("", "Error: No such container", 1, FALSE, timeout)
      [] OTHER -> AfterKill("docker", RunResult(command, timeout))

\* os.environ of the process the manager runs in, by variable name
\* (OPA_URL is the variable PolicyEngine reads)
Environ == {"PATH", "HOME", "USER", "LANG", "TZ", "OPA_URL"}

\* the environment of the child of subprocess.run at 294-301: no env
\* argument is passed, and the child is given os.environ as it is
ChrootEnv == Environ

\* SandboxManager._execute_chroot
ExecuteChroot(command, timeout, run) ==
    IF run = "oserror" THEN BackendRaised("FileExistsError")
    ELSE [AfterKill("chroot", RunResult(command, timeout)) EXCEPT !.env = ChrootEnv]

\* the backend dispatch of execute_in_sandbox
ExecuteBackend(b, command, timeout, run) ==
    CASE b = "docker" -> ExecuteDocker(command, timeout, run)
      [] b = "k8s" -> ExecuteK8s(timeout)
      [] OTHER -> ExecuteChroot(command, timeout, run)

\* what the run can meet on a backend
RunOutcomesOf(b) ==
    CASE b = "docker" -> RunOutcomes
      [] b = "k8s" -> {"ok"}
      [] OTHER -> {"ok", "oserror"}

\* sandbox.last_activity = time.time(); sandbox.command_count += 1
TouchedNoCount(sandbox, t) == [sandbox EXCEPT !.last_activity = t]
Touched(sandbox, t) == [sandbox EXCEPT !.last_activity = t, !.command_count = @ + 1]

\* raise ValueError(f"Sandbox {sandbox_id} not found")
ExecuteMissingAsResult(sid) == ExecutionResult("", "not found", 1, FALSE, 0)
ExecuteMissing(sid) == Raised("ValueError: not found", FALSE)

\* the commands the registered sandboxes have run
RECURSIVE CommandsRun(_)
CommandsRun(sbs) ==
    IF DOMAIN sbs = {}
    THEN 0
    ELSE LET sid == CHOOSE x \in DOMAIN sbs : TRUE
         IN sbs[sid].command_count + CommandsRun([x \in DOMAIN sbs \ {sid} |-> sbs[x]])

\* the registry execute_in_sandbox leaves: lines 214-215 work on the Sandbox
\* found, and nothing in the call or the backend run touches self._sandboxes
AfterExecuteUnregisters(sbs, sid, t) == [x \in DOMAIN sbs \ {sid} |-> sbs[x]]
AfterExecute(sbs, sid, t) == [sbs EXCEPT ![sid] = Touched(sbs[sid], t)]

ExecuteInSandbox(sid, command, timeout_arg, run) ==
    /\ sb_call' = [SbCall("execute_in_sandbox", sid, PyNone, NoSbCall.config, timeout_arg, command, 0)
                      EXCEPT !.run = run]
    /\ IF ~IsRegistered(sandboxes, sid)
       THEN /\ run = "ok"
            /\ sb_ret' = ExecuteMissing(sid)
            /\ UNCHANGED <<sandboxes, now>>
       ELSE LET sandbox == sandboxes[sid]
                timeout == EffectiveTimeout(timeout_arg, configs[sandbox.config].command_timeout)
                elapsed == IF backend = "k8s" \/ run # "ok" THEN 0 ELSE RunSeconds(command, timeout)
            IN /\ CommandsRun(sandboxes) < MaxCommands
               /\ now + elapsed <= MaxTime
               /\ run \in RunOutcomesOf(backend)
               /\ sandboxes' = AfterExecute(sandboxes, sid, now)
               /\ sb_ret' = [ExecuteBackend(backend, command, timeout, run)
                               EXCEPT !.after_timeout = sb_call.op = "execute_in_sandbox"
                                                        /\ sb_call.id = sid /\ sb_ret.timed_out]
               /\ now' = now + elapsed
    /\ UNCHANGED <<backend, configs, next_uuid, temp_dirs, containers, issued, threads>>
    /\ UNCHANGED policyVars

(***************************************************************************)
(* SandboxManager.destroy_sandbox, cleanup_expired, list_sandboxes         *)
(***************************************************************************)
\* `docker rm -f` with timeout=30 and no check: "ok", or "timeout"
\* (TimeoutExpired, a SubprocessError, caught) with the container left
DockerRmOutcomes == {"ok", "timeout"}

\* del self._sandboxes[sandbox_id]
UnregisterNothing(sbs, sid) == sbs
Unregister(sbs, sid) == [x \in DOMAIN sbs \ {sid} |-> sbs[x]]

\* destroy_sandbox when the id is not registered: return
DestroyMissingRaises(sid) == Raised("ValueError: not found", FALSE)
DestroyMissing(sid) == Returned(FALSE)

\* destroy_sandbox on the manager's registry, containers and directories
ManagerState(sbs, cs, dirs) == [sandboxes |-> sbs, containers |-> cs, temp_dirs |-> dirs]

DestroyIn(st, sid, docker_rm) ==
    IF ~IsRegistered(st.sandboxes, sid)
    THEN st
    ELSE LET sandbox == st.sandboxes[sid]
         IN ManagerState(
              Unregister(st.sandboxes, sid),
              IF backend = "docker" /\ sandbox.docker_container /\ docker_rm = "ok"
                  THEN st.containers \ {sid} ELSE st.containers,
              IF sandbox.temp_dir THEN st.temp_dirs \ {sid} ELSE st.temp_dirs)

RmOutcomes == IF backend = "docker" THEN DockerRmOutcomes ELSE {"ok"}

DestroySandbox(sid, docker_rm) ==
    LET st == DestroyIn(ManagerState(sandboxes, containers, temp_dirs), sid, docker_rm)
    IN /\ docker_rm \in (IF IsRegistered(sandboxes, sid) THEN RmOutcomes ELSE {"ok"})
       /\ sandboxes' = st.sandboxes
       /\ containers' = st.containers
       /\ temp_dirs' = st.temp_dirs
       /\ sb_call' = SbCall("destroy_sandbox", sid, PyNone, NoSbCall.config, <<>>, "", 0)
       /\ sb_ret' = IF IsRegistered(sandboxes, sid) THEN Returned(TRUE) ELSE DestroyMissing(sid)
       /\ UNCHANGED <<backend, configs, next_uuid, now, issued, threads>>
       /\ UNCHANGED policyVars

\* for sid in expired: self.destroy_sandbox(sid)
RECURSIVE DestroyEach(_, _, _)
DestroyEach(st, ids, docker_rm) ==
    IF ids = {}
    THEN st
    ELSE LET sid == CHOOSE x \in ids : TRUE
         IN DestroyEach(DestroyIn(st, sid, docker_rm[sid]), ids \ {sid}, docker_rm)

\* the ids with current_time - sandbox.last_activity > max_idle_seconds
ExpiredAtOrOver(sbs, current_time, max_idle_seconds) ==
    {sid \in DOMAIN sbs : current_time - sbs[sid].last_activity >= max_idle_seconds}
Expired(sbs, current_time, max_idle_seconds) ==
    {sid \in DOMAIN sbs : current_time - sbs[sid].last_activity > max_idle_seconds}

CleanupExpired(max_idle_seconds, docker_rm) ==
    LET expired == Expired(sandboxes, now, max_idle_seconds)
        st == DestroyEach(ManagerState(sandboxes, containers, temp_dirs), expired, docker_rm)
    IN /\ docker_rm \in [expired -> RmOutcomes]
       /\ sandboxes' = st.sandboxes
       /\ containers' = st.containers
       /\ temp_dirs' = st.temp_dirs
       /\ sb_call' = SbCall("cleanup_expired", NoId, PyNone, NoSbCall.config, <<>>, "", max_idle_seconds)
       /\ sb_ret' = ReturnedCount(Cardinality(expired))
       /\ UNCHANGED <<backend, configs, next_uuid, now, issued, threads>>
       /\ UNCHANGED policyVars

ListSandboxes ==
    /\ sb_call' = SbCall("list_sandboxes", NoId, PyNone, NoSbCall.config, <<>>, "", 0)
    /\ sb_ret' = ReturnedList(DOMAIN sandboxes)
    /\ UNCHANGED <<backend, sandboxes, configs, next_uuid, now, temp_dirs, containers, issued, threads>>
    /\ UNCHANGED policyVars

\* a second passes with no call in progress
Tick ==
    /\ now < MaxTime
    /\ now' = now + 1
    /\ sb_call' = NoSbCall
    /\ sb_ret' = NoRet
    /\ UNCHANGED <<backend, sandboxes, configs, next_uuid, temp_dirs, containers, issued, threads>>
    /\ UNCHANGED policyVars

\* the ids a caller passes: one create_sandbox returned, or one it never returned
CallerIds == issued \cup {NonExistentId}

NextSandbox ==
    \/ \E user \in UserArgs \cup ReuseUserArgs, cfg \in ConfigArgs(configs), docker_run \in DockerRunOutcomes :
           /\ (user = PyNone => cfg.kind = "none")
           /\ (user \in ReuseUserArgs <=> cfg.kind = "ref")
           /\ CreateSandbox(user, cfg, docker_run)
    \/ \E sid \in CallerIds, args \in ExecuteArgs :
           /\ (~IsRegistered(sandboxes, sid) => args[1] = "echo hi")
           /\ ExecuteInSandbox(sid, args[1], args[2], args[3])
    \/ \E sid \in CallerIds, docker_rm \in DockerRmOutcomes : DestroySandbox(sid, docker_rm)
    \/ \E max_idle_seconds \in {0, 1} :
           \E docker_rm \in [Expired(sandboxes, now, max_idle_seconds) -> DockerRmOutcomes] :
               CleanupExpired(max_idle_seconds, docker_rm)
    \/ ListSandboxes
    \/ Tick

(***************************************************************************)
(* The manager called from several threads.  No method takes a lock; a     *)
(* thread can be switched out between any two of its statements and while  *)
(* it waits for a backend run or a clean-up command.  A Sandbox object     *)
(* taken out of the registry stays reachable to the calls that hold it,    *)
(* and the model stops tracking its counters.                              *)
(***************************************************************************)
\* the calls in flight that have not yet stored their command_count
Counting == {t \in Threads : threads[t].pc \in {"count", "store"}}

\* lines 209-214: look the sandbox up, raise when it is missing, else work
\* out the timeout and set last_activity
ThreadCall(t, sid, command, timeout_arg) ==
    /\ threads[t].pc = "idle"
    /\ IF ~IsRegistered(sandboxes, sid)
       THEN /\ sb_call' = SbCall("execute_in_sandbox", sid, PyNone, NoSbCall.config, timeout_arg, command, 0)
            /\ sb_ret' = ExecuteMissing(sid)
            /\ UNCHANGED <<sandboxes, threads>>
       ELSE /\ CommandsRun(sandboxes) + Cardinality(Counting) < MaxCommands
            /\ sandboxes' = [sandboxes EXCEPT ![sid].last_activity = now]
            /\ threads' = [threads EXCEPT ![t] =
                  [IdleThread EXCEPT !.pc = "count", !.id = sid, !.command = command,
                   !.timeout = EffectiveTimeout(timeout_arg, configs[sandboxes[sid].config].command_timeout)]]
            /\ UNCHANGED <<sb_call, sb_ret>>
    /\ UNCHANGED <<backend, configs, next_uuid, now, temp_dirs, containers, issued>>
    /\ UNCHANGED policyVars

\* line 215, sandbox.command_count += 1: the read
ThreadLoad(t) ==
    /\ threads[t].pc = "count"
    /\ threads' = [threads EXCEPT ![t].pc = "store",
                                  ![t].read = IF IsRegistered(sandboxes, threads[t].id)
                                              THEN sandboxes[threads[t].id].command_count ELSE 0]
    /\ UNCHANGED <<backend, sandboxes, configs, next_uuid, now, temp_dirs, containers, issued, sb_call, sb_ret>>
    /\ UNCHANGED policyVars

\* line 215, sandbox.command_count += 1: the write
ThreadStore(t) ==
    /\ threads[t].pc = "store"
    /\ sandboxes' = IF IsRegistered(sandboxes, threads[t].id)
                    THEN [sandboxes EXCEPT ![threads[t].id].command_count = threads[t].read + 1]
                    ELSE sandboxes
    /\ threads' = [threads EXCEPT ![t].pc = "dispatch"]
    /\ UNCHANGED <<backend, configs, next_uuid, now, temp_dirs, containers, issued, sb_call, sb_ret>>
    /\ UNCHANGED policyVars

\* lines 217-222: the backend's _execute_* is entered and the run starts
ThreadDispatch(t) ==
    /\ threads[t].pc = "dispatch"
    /\ threads' = [threads EXCEPT ![t].pc = "running"]
    /\ UNCHANGED <<backend, sandboxes, configs, next_uuid, now, temp_dirs, containers, issued, sb_call, sb_ret>>
    /\ UNCHANGED policyVars

\* the run ends and the call returns its result
ThreadReturn(t) ==
    /\ threads[t].pc = "running"
    /\ threads' = [threads EXCEPT ![t] = IdleThread]
    /\ sb_call' = SbCall("execute_in_sandbox", threads[t].id, PyNone, NoSbCall.config,
                         <<threads[t].timeout>>, threads[t].command, 0)
    /\ sb_ret' = ExecuteBackend(backend, threads[t].command, threads[t].timeout, "ok")
    /\ UNCHANGED <<backend, sandboxes, configs, next_uuid, now, temp_dirs, containers, issued>>
    /\ UNCHANGED policyVars

\* destroy_sandbox, lines 319-321: the lookup; the thread keeps the Sandbox
\* it found.  Called by the caller (sweeping stays FALSE).
ThreadDestroyCall(t, sid) ==
    /\ threads[t].pc = "idle"
    /\ IF ~IsRegistered(sandboxes, sid)
       THEN /\ sb_call' = SbCall("destroy_sandbox", sid, PyNone, NoSbCall.config, <<>>, "", 0)
            /\ sb_ret' = DestroyMissing(sid)
            /\ UNCHANGED threads
       ELSE /\ threads' = [threads EXCEPT ![t] = [IdleThread EXCEPT !.pc = "teardown", !.id = sid]]
            /\ UNCHANGED <<sb_call, sb_ret>>
    /\ UNCHANGED <<backend, sandboxes, configs, next_uuid, now, temp_dirs, containers, issued>>
    /\ UNCHANGED policyVars

\* destroy_sandbox, lines 324-341: `docker rm -f` on the container and
\* rmtree on the directory the Sandbox holds, whether or not another thread
\* has removed them already
ThreadTeardown(t, docker_rm) ==
    /\ threads[t].pc = "teardown"
    /\ docker_rm \in RmOutcomes
    /\ containers' = IF backend = "docker" /\ docker_rm = "ok"
                     THEN containers \ {threads[t].id} ELSE containers
    /\ temp_dirs' = IF backend \in {"docker", "chroot"}
                    THEN temp_dirs \ {threads[t].id} ELSE temp_dirs
    /\ threads' = [threads EXCEPT ![t].pc = "unregister"]
    /\ UNCHANGED <<backend, sandboxes, configs, next_uuid, now, issued, sb_call, sb_ret>>
    /\ UNCHANGED policyVars

\* what the call the thread is in raised or returned at line 343: a
\* KeyError of the del leaves destroy_sandbox and, through it, the loop of
\* cleanup_expired
ThreadCallOf(t) ==
    IF threads[t].sweeping
    THEN SbCall("cleanup_expired", NoId, PyNone, NoSbCall.config, <<>>, "", threads[t].max_idle_seconds)
    ELSE SbCall("destroy_sandbox", threads[t].id, PyNone, NoSbCall.config, <<>>, "", 0)

\* destroy_sandbox, line 343: del self._sandboxes[sandbox_id]
ThreadUnregister(t) ==
    /\ threads[t].pc = "unregister"
    /\ IF IsRegistered(sandboxes, threads[t].id)
       THEN /\ sandboxes' = Unregister(sandboxes, threads[t].id)
            /\ IF threads[t].sweeping
               THEN /\ threads' = [threads EXCEPT ![t].pc = "sweep", ![t].id = NoId]
                    /\ UNCHANGED <<sb_call, sb_ret>>
               ELSE /\ threads' = [threads EXCEPT ![t] = IdleThread]
                    /\ sb_call' = ThreadCallOf(t)
                    /\ sb_ret' = Returned(TRUE)
       ELSE /\ sb_call' = ThreadCallOf(t)
            /\ sb_ret' = [Raised("KeyError", TRUE) EXCEPT !.id = threads[t].id]
            /\ threads' = [threads EXCEPT ![t] = IdleThread]
            /\ UNCHANGED sandboxes
    /\ UNCHANGED <<backend, configs, next_uuid, now, temp_dirs, containers, issued>>
    /\ UNCHANGED policyVars

\* cleanup_expired, lines 361-365: the list of expired ids
ThreadCleanupCall(t, max_idle_seconds) ==
    /\ threads[t].pc = "idle"
    /\ LET expired == Expired(sandboxes, now, max_idle_seconds)
       IN threads' = [threads EXCEPT ![t] =
             [IdleThread EXCEPT !.pc = "sweep", !.expired = expired, !.count = Cardinality(expired),
                                !.sweeping = TRUE, !.max_idle_seconds = max_idle_seconds]]
    /\ UNCHANGED <<backend, sandboxes, configs, next_uuid, now, temp_dirs, containers, issued, sb_call, sb_ret>>
    /\ UNCHANGED policyVars

\* the id the loop of 367 takes next: the dict keeps insertion order, and a
\* later create_sandbox draws a later uuid
FirstCreated(ids) == CHOOSE sid \in ids : \A x \in ids : sid.uuid <= x.uuid

\* cleanup_expired, lines 367-370: the loop calls destroy_sandbox on the next
\* id (its lookup of 319-321 included), or ends and returns len(expired)
ThreadSweep(t) ==
    /\ threads[t].pc = "sweep"
    /\ IF threads[t].expired = {}
       THEN /\ threads' = [threads EXCEPT ![t] = IdleThread]
            /\ sb_call' = ThreadCallOf(t)
            /\ sb_ret' = ReturnedCount(threads[t].count)
       ELSE LET sid == FirstCreated(threads[t].expired)
            IN /\ threads' = [threads EXCEPT
                     ![t].expired = @ \ {sid},
                     ![t].pc = IF IsRegistered(sandboxes, sid) THEN "teardown" ELSE "sweep",
                     ![t].id = IF IsRegistered(sandboxes, sid) THEN sid ELSE NoId]
               /\ UNCHANGED <<sb_call, sb_ret>>
    /\ UNCHANGED <<backend, sandboxes, configs, next_uuid, now, temp_dirs, containers, issued>>
    /\ UNCHANGED policyVars

\* The thread a new call is made on: the threads being alike, the first
\* idle one.
FirstIdle(t) == threads[t].pc = "idle" /\ \A u \in Threads : u < t => threads[u].pc # "idle"

\* a second passes, with calls in progress or not
ThreadTick ==
    /\ now < MaxTime
    /\ now' = now + 1
    /\ UNCHANGED <<backend, sandboxes, configs, next_uuid, temp_dirs, containers, issued, sb_call, sb_ret, threads>>
    /\ UNCHANGED policyVars

NextConcurrent ==
    \/ \E user \in UserArgs, docker_run \in DockerRunOutcomes :
           CreateSandbox(user, [kind |-> "none", ref |-> 0, timeout |-> 0], docker_run)
    \/ \E t \in Threads, sid \in CallerIds, args \in ExecuteArgs :
           /\ FirstIdle(t)
           /\ args[3] = "ok"
           /\ ThreadCall(t, sid, args[1], args[2])
    \/ \E t \in Threads : ThreadLoad(t)
    \/ \E t \in Threads : ThreadStore(t)
    \/ \E t \in Threads : ThreadDispatch(t)
    \/ \E t \in Threads : ThreadReturn(t)
    \/ \E t \in Threads, sid \in CallerIds : FirstIdle(t) /\ ThreadDestroyCall(t, sid)
    \/ \E t \in Threads : ThreadTeardown(t, "ok")
    \/ \E t \in Threads : ThreadUnregister(t)
    \/ \E t \in Threads : FirstIdle(t) /\ ThreadCleanupCall(t, 0)
    \/ \E t \in Threads : ThreadSweep(t)
    \/ ThreadTick

(***************************************************************************)
(* Specifications                                                          *)
(***************************************************************************)
\* the policy engine alone
Init == PolicyInit /\ SandboxIdle
Spec == Init /\ [][Next]_vars

\* the construction of the policy engine over a directory of rule files
InitLoad == LoadInit /\ SandboxIdle
LoadSpec == InitLoad /\ [][LoadRuleFiles]_vars

\* the sandbox manager alone
InitSandbox == PolicyIdle /\ SandboxInit
SandboxSpec == InitSandbox /\ [][NextSandbox]_vars

\* the sandbox manager with two caller threads and a running clock
ConcurrentSpec == InitSandbox /\ [][NextConcurrent]_vars

(***************************************************************************)
(* Properties of PolicyEngine (checked under Spec)                         *)
(***************************************************************************)
\* the last call was an evaluate (alone or inside dry_run)
Evaluated == call.op \in {"evaluate", "dry_run"}

\* the request to the remote service failed: the POST raised, the status was
\* not 200, or the body could not be read as a JSON object
RemoteFailed ==
    /\ call.posted
    /\ \/ call.response.raised
       \/ call.response.status # 200
       \/ BodyRaises(call.response.body)

\* the verdict came out of _evaluate_local: no request was made, or the
\* request came back with a status other than 200
LocalVerdict ==
    /\ Evaluated
    /\ \/ ~call.posted
       \/ ~call.response.raised /\ call.response.status # 200

\* the positions of the rules matching the command of the last call
Hits == {i \in 1..Len(rules) : Matches(rules[i], call.command)}

\* C1: when evaluate delegates to the remote service and the request fails
\* (exception, non-200 status, unreadable body), the PolicyResult returned is
\* exactly the one local evaluation gives for the same command and rules.
C1_RemoteFailureFallsBack ==
    (Evaluated /\ RemoteFailed) => result = EvaluateLocal(rules, call.command, call.context)

\* C2: if a critical rule R1 and a low rule R2 both match the command, local
\* evaluate never returns R2, returns a critical rule, and returns R1 itself
\* with R1's action when R1 is the first matching critical rule of the list,
\* whatever the insertion order of R1 and R2.
C2_CriticalBeatsLow ==
    LocalVerdict =>
        \A i \in Hits, j \in Hits :
            (rules[i].severity = "critical" /\ rules[j].severity = "low") =>
                /\ result.rule # <<>>
                /\ result.rule_pos # j
                /\ rules[result.rule_pos].severity = "critical"
                /\ (\A k \in Hits : rules[k].severity = "critical" => k >= i) =>
                       /\ result.rule_pos = i
                       /\ result.rule = <<rules[i]>>
                       /\ result.action = rules[i].action

\* C2 happens: a low rule inserted before a critical one, both matching,
\* and local evaluate returned the critical one
C2_Witness ==
    /\ LocalVerdict
    /\ \E i \in Hits, j \in Hits :
          /\ j < i
          /\ rules[i].severity = "critical"
          /\ rules[j].severity = "low"
          /\ result.rule_pos = i

\* C3: whatever add_rule and remove_rule calls came before, local evaluate
\* returns a matching rule such that every other matching rule has a less
\* urgent severity, or the same severity and a later place in the list; it
\* returns no rule only when none matches.
C3_FirstMatchInStableSeverityOrder ==
    LocalVerdict =>
        IF Hits = {}
        THEN result.rule = <<>>
        ELSE /\ result.rule_pos \in Hits
             /\ result.rule = <<rules[result.rule_pos]>>
             /\ result.action = rules[result.rule_pos].action
             /\ \A j \in Hits :
                   \/ SeverityRank(rules[j].severity) > SeverityRank(rules[result.rule_pos].severity)
                   \/ /\ SeverityRank(rules[j].severity) = SeverityRank(rules[result.rule_pos].severity)
                      /\ j >= result.rule_pos

\* C3 happens: a built-in rule was removed, two added rules of one severity
\* match the command, and local evaluate returned the one added first
C3_Witness ==
    /\ LocalVerdict
    /\ Len(rules) < Len(BuiltinRules) + Cardinality(Added(rules))
    /\ result.rule_pos \in Added(rules)
    /\ \E j \in Hits \cap Added(rules) :
          /\ j > result.rule_pos
          /\ rules[j].severity = rules[result.rule_pos].severity
          /\ rules[j] # rules[result.rule_pos]

\* C4: a command matching no rule yields allowed=True, action ALLOW and no
\* matched rule, whenever the verdict is not the remote service's own answer.
C4_NoMatchAllows ==
    (/\ Evaluated
     /\ Hits = {}
     /\ ~(call.posted /\ ~RemoteFailed)) =>
        /\ result.allowed = PyTrue
        /\ result.action = ALLOW
        /\ result.rule = <<>>

\* C5: every PolicyResult evaluate returns has allowed False exactly when
\* its action is BLOCK and requires_confirmation True exactly when its action
\* is CONFIRM; a remote result of true gives ALLOW and of false gives BLOCK.
C5_AllowedMatchesAction ==
    Evaluated =>
        /\ (result.allowed = PyFalse) <=> (result.action = BLOCK)
        /\ RequiresConfirmation(result) <=> (result.action = CONFIRM)
        /\ (call.posted /\ ~RemoteFailed /\ call.response.body = "true") => result.action = ALLOW
        /\ (call.posted /\ ~RemoteFailed /\ call.response.body = "false") => result.action = BLOCK

\* C6: whenever the evaluate inside dry_run matched a rule, all_matching_rules
\* is not empty and its first element is that rule (the one in rule_matched).
C6_DryRunFirstIsMatched ==
    (call.op = "dry_run" /\ result.rule # <<>>) =>
        /\ Len(report.all_matching_rules) >= 1
        /\ report.all_matching_rules[1] =
              [name |-> result.rule[1].name, action |-> result.rule[1].action,
               severity |-> result.rule[1].severity]
        /\ report.all_matching_rules[1].name = report.rule_matched

\* the health probe of the construction returned 200
ProbeOk == health.made /\ ~health.raised /\ health.status = 200

\* C7: evaluate posts a request to the remote service exactly when use_opa is
\* set and the health probe made at construction returned 200; the cached
\* flag holds the outcome of that probe and no later call or remote failure
\* changes it.
C7_RemoteIffConfiguredAndProbed ==
    /\ [](opa_available = (use_opa /\ ProbeOk))
    /\ [](Evaluated => (call.posted <=> (use_opa /\ ProbeOk)))
    /\ [][opa_available' = opa_available /\ use_opa' = use_opa /\ health' = health]_vars

\* C7 happens: an evaluate posted a request, the request raised, and the
\* flag is still set
C7_Witness ==
    /\ call.op = "evaluate"
    /\ call.posted
    /\ call.response.raised
    /\ opa_available

\* C23: remove_rule(name) returns True exactly when some rule has that name,
\* and then takes out the first such rule of the list and nothing else: the
\* rules before it and after it (later ones of the same name included) keep
\* their order; with no rule of that name it returns False and leaves the
\* list as it was.  A remove_rule of the name just added returns True.
C23_RemoveFirstNamedOnly ==
    [][call'.op = "remove_rule" =>
          LET named == {i \in 1..Len(rules) : rules[i].name = call'.name}
          IN /\ IF named = {}
                THEN call'.returned = PyFalse /\ rules' = rules
                ELSE LET first == CHOOSE i \in named : \A j \in named : i <= j
                     IN /\ call'.returned = PyTrue
                        /\ Len(rules') = Len(rules) - 1
                        /\ \A k \in 1..(first - 1) : rules'[k] = rules[k]
                        /\ \A k \in first..(Len(rules) - 1) : rules'[k] = rules[k + 1]
             /\ (call.op = "add_rule" /\ call.name = call'.name) => call'.returned = PyTrue
             /\ (call.op = "remove_rule" /\ call.name = call'.name /\ Cardinality(named) = 0) =>
                   call'.returned = PyFalse]_vars

\* C23 happens: two rules of one name were added, remove_rule of that name
\* returned True, and the one added second is still in the list
C23_Witness ==
    /\ call.op = "remove_rule"
    /\ call.name = "custom_test"
    /\ call.returned = PyTrue
    /\ Len(rules) = Len(BuiltinRules) + 1
    /\ rules[Len(rules)] = PolicyRule("custom_test", "install", ALLOW, "critical")
    /\ \A k \in 1..Len(BuiltinRules) : rules[k] = BuiltinRules[k]

\* C25: PolicyRule(...) with a pattern that is not a regular expression
\* raises in the constructor, one with a valid pattern does not; so after any
\* add_rule and remove_rule calls every rule of the rule set has a pattern
\* that compiled, and matching has nothing left to compile.
C25_InvalidPatternFailsAtConstruction ==
    /\ \A i \in 1..Len(rules) : rules[i].pattern \notin InvalidPatterns
    /\ call.op = "PolicyRule" =>
          (call.returned = "re.error" <=> call.pattern \in InvalidPatterns)
    /\ call.op = "PolicyRule" => (call.returned = PyNone <=> call.pattern \notin InvalidPatterns)
    /\ call.op = "add_rule" => rules[Len(rules)].pattern \notin InvalidPatterns

\* C25 happens: after a rule was added and a built-in one removed,
\* PolicyRule(...) with the pattern "(" raised
C25_Witness ==
    /\ call.op = "PolicyRule"
    /\ call.pattern = "("
    /\ call.returned = "re.error"
    /\ Added(rules) # {}
    /\ Len(rules) < Len(BuiltinRules) + Cardinality(Added(rules))

\* C29: whatever context is passed to evaluate, the "command" entry of the
\* PolicyResult's context and the "command" field of the request posted to
\* the remote service are the command argument of evaluate.
C29_ReportedCommandIsJudged ==
    Evaluated =>
        /\ result.context["command"] = call.command
        /\ call.posted => call.input["command"] = call.command

C9_ExecuteUnknownIdRaises ==
    [][(sb_call'.op = "execute_in_sandbox" /\ ~IsRegistered(sandboxes, sb_call'.id)) =>
          /\ sb_ret'.kind = "raised"
          /\ sb_ret'.error = "ValueError: not found"
          /\ ~sb_ret'.dispatched
          /\ sandboxes' = sandboxes
          /\ now' = now]_vars

\* C9 happens: execute_in_sandbox was called with the id of a sandbox that
\* was created and is gone, while another sandbox is registered
C9_Witness ==
    /\ sb_call.op = "execute_in_sandbox"
    /\ sb_call.id \in issued
    /\ ~IsRegistered(sandboxes, sb_call.id)
    /\ sb_ret.kind = "raised"
    /\ sandboxes # EmptyRegistry

\* C10 as stated: destroy_sandbox on an id absent from the registry fails
\* with a not-found error.
C10_DestroyUnknownIdRaises ==
    (sb_call.op = "destroy_sandbox" /\ ~sb_ret.found) =>
        (sb_ret.kind = "raised" /\ sb_ret.error = "ValueError: not found")

\* C10 amended: destroy_sandbox on an id absent from the registry raises
\* nothing and returns None; of the two calls taking an id only
\* execute_in_sandbox fails with the not-found error.
C10_DestroyUnknownIdReturns ==
    /\ (sb_call.op = "destroy_sandbox" /\ ~sb_ret.found) =>
          (sb_ret.kind = "returned" /\ sb_ret.error = "")
    /\ (sb_call.op = "execute_in_sandbox" /\ ~sb_ret.found) =>
          (sb_ret.kind = "raised" /\ sb_ret.error = "ValueError: not found")

\* C10 happens: destroy_sandbox was called with an id no create_sandbox ever
\* returned, and returned
C10_Witness ==
    /\ sb_call.op = "destroy_sandbox"
    /\ sb_call.id = NonExistentId
    /\ ~sb_ret.found
    /\ sb_ret.kind = "returned"

\* the last call was an execute_in_sandbox that reached the backend run
Dispatched == sb_call.op = "execute_in_sandbox" /\ sb_ret.dispatched

\* C11: an execute_in_sandbox call on a registered id adds exactly 1 to that
\* sandbox's command_count and sets its last_activity to the time of the
\* call, before the run and whatever the run does; no other sandbox changes;
\* a created sandbox starts at 0, so n calls leave command_count at n.
C11_ExecuteCountsOnce ==
    [][/\ (sb_call'.op = "execute_in_sandbox" /\ IsRegistered(sandboxes, sb_call'.id)) =>
             /\ DOMAIN sandboxes' = DOMAIN sandboxes
             /\ sandboxes'[sb_call'.id].command_count = sandboxes[sb_call'.id].command_count + 1
             /\ sandboxes'[sb_call'.id].last_activity = now
             /\ \A x \in DOMAIN sandboxes \ {sb_call'.id} : sandboxes'[x] = sandboxes[x]
       /\ (sb_call'.op = "create_sandbox" /\ sb_ret'.kind = "sandbox") =>
             sandboxes'[sb_ret'.id].command_count = 0
       /\ (sb_call'.op # "execute_in_sandbox") =>
             \A x \in DOMAIN sandboxes \cap DOMAIN sandboxes' :
                 sandboxes'[x].command_count = sandboxes[x].command_count]_vars

\* C11 happens: the second call on a sandbox met a backend error, and the
\* sandbox's command_count is 2
C11_Witness ==
    /\ Dispatched
    /\ sb_ret.kind = "raised"
    /\ IsRegistered(sandboxes, sb_call.id)
    /\ sandboxes[sb_call.id].command_count = 2
    /\ sandboxes[sb_call.id].last_activity = now

\* C12: on the backends that run the command (docker, chroot), a command
\* that takes longer than the timeout applied to the run returns a result
\* with timed_out True and exit_code -1; one that finishes within it returns
\* timed_out False and the command's exit code.
C12_TimeoutIsReturned ==
    (Dispatched /\ backend \in {"docker", "chroot"} /\ sb_call.run = "ok") =>
        /\ sb_ret.kind = "result"
        /\ IF CommandSeconds(sb_call.command) > sb_ret.timeout
           THEN sb_ret.timed_out /\ sb_ret.exit_code = -1
           ELSE ~sb_ret.timed_out /\ sb_ret.exit_code = CommandExit(sb_call.command)

\* C12 happens: "sleep 2" was run with a timeout of 1 and the call returned
\* the timed-out result
C12_Witness ==
    /\ Dispatched
    /\ sb_call.command = "sleep 2"
    /\ sb_ret.timeout = 1
    /\ sb_ret.kind = "result"
    /\ sb_ret.timed_out
    /\ sb_ret.exit_code = -1

\* C13: an execute_in_sandbox that returns timed_out leaves the sandbox
\* registered under its id with its config; every execute_in_sandbox on a
\* registered id reaches the backend run; only destroy_sandbox and
\* cleanup_expired take an id out of the registry.
C13_TimeoutKeepsSandbox ==
    [][/\ sb_ret'.timed_out =>
             /\ IsRegistered(sandboxes', sb_call'.id)
             /\ sandboxes'[sb_call'.id].id = sb_call'.id
             /\ sandboxes'[sb_call'.id].config = sandboxes[sb_call'.id].config
             /\ configs' = configs
       /\ (sb_call'.op = "execute_in_sandbox" /\ IsRegistered(sandboxes, sb_call'.id)) =>
             sb_ret'.dispatched
       /\ (DOMAIN sandboxes \ DOMAIN sandboxes' # {}) =>
             sb_call'.op \in {"destroy_sandbox", "cleanup_expired"}]_vars

\* C13 happens: a call timed out, and the next call on the same id ran its
\* command to the end
C13_Witness ==
    /\ Dispatched
    /\ sb_ret.after_timeout
    /\ sb_ret.kind = "result"
    /\ ~sb_ret.timed_out
    /\ sb_ret.exit_code = 0
    /\ sb_ret.stdout = "hi\n"

\* C14: the timeout applied to a run is the caller's timeout whenever the
\* caller passed one (0 included), and the sandbox's configured
\* command_timeout otherwise.
C14_CallerTimeoutApplied ==
    (sb_call.op = "execute_in_sandbox" /\ sb_ret.kind = "result") =>
        sb_ret.timeout = IF sb_call.timeout # <<>>
                         THEN sb_call.timeout[1]
                         ELSE configs[sandboxes[sb_call.id].config].command_timeout

\* C15: execute_in_sandbox on a registered id never raises: a backend
\* failure is returned as a result with a non-zero exit_code and the error
\* text in stderr.
C15_BackendErrorsAreResults ==
    (sb_call.op = "execute_in_sandbox" /\ sb_ret.found) =>
        /\ sb_ret.kind = "result"
        /\ sb_call.run # "ok" => (sb_ret.exit_code # 0 /\ sb_ret.stderr # "")

\* C16: when the backend fails to provision, create_sandbox raises and the
\* registry is as it was: the id of the failed sandbox is not registered and
\* was not returned.
C16_FailedCreateNotRegistered ==
    [][(sb_call'.op = "create_sandbox" /\ sb_call'.run # "ok") =>
          /\ sb_ret'.kind = "raised"
          /\ sandboxes' = sandboxes
          /\ ~IsRegistered(sandboxes', sb_ret'.id)
          /\ sb_ret'.id \notin issued']_vars

\* C16 happens: `docker run` failed while another sandbox was registered
C16_Witness ==
    /\ sb_call.op = "create_sandbox"
    /\ sb_call.run = "nonzero"
    /\ sb_ret.kind = "raised"
    /\ sb_ret.error = "RuntimeError"
    /\ sandboxes # EmptyRegistry

\* C17: with backend "auto" the constructor selects k8s when the service
\* account directory exists, else docker when `docker info` succeeds, else
\* chroot, however the probe fails; it never raises; an explicit backend is
\* taken as given and nothing is probed.
C17_BackendSelection ==
    sb_call.op = "init" =>
        /\ sb_ret.kind = "returned"
        /\ sb_call.backend # "auto" => (backend = sb_call.backend /\ sb_call.docker_info = "")
        /\ (sb_call.backend = "auto" /\ sb_call.k8s_secret) =>
              (backend = "k8s" /\ sb_call.docker_info = "")
        /\ (sb_call.backend = "auto" /\ ~sb_call.k8s_secret /\ sb_call.docker_info = "ok") =>
              backend = "docker"
        /\ (sb_call.backend = "auto" /\ ~sb_call.k8s_secret
              /\ sb_call.docker_info \in {"nonzero", "timeout", "missing"}) =>
              backend = "chroot"

\* C17 happens: "auto", no service account, `docker info` timed out, and
\* the manager stands on chroot
C17_Witness ==
    /\ sb_call.op = "init"
    /\ sb_call.backend = "auto"
    /\ ~sb_call.k8s_secret
    /\ sb_call.docker_info = "timeout"
    /\ backend = "chroot"

\* C18: cleanup_expired(max_idle_seconds=0) called right after create_sandbox
\* (no call and no time in between, idle exactly 0) destroys the created
\* sandbox; when it was the only one the call returns 1 and leaves the
\* registry empty.
C18_CleanupZeroAfterCreate ==
    [][(/\ sb_call.op = "create_sandbox"
        /\ sb_ret.kind = "sandbox"
        /\ sb_call'.op = "cleanup_expired"
        /\ sb_call'.max_idle_seconds = 0) =>
          /\ ~IsRegistered(sandboxes', sb_ret.id)
          /\ sb_ret'.count >= 1
          /\ DOMAIN sandboxes = {sb_ret.id} => (sb_ret'.count = 1 /\ sandboxes' = EmptyRegistry)]_vars

C20_OneRunPerSandbox ==
    \A t1 \in Threads, t2 \in Threads :
        (t1 # t2 /\ threads[t1].pc = "running" /\ threads[t2].pc = "running") =>
            threads[t1].id # threads[t2].id

(***************************************************************************)
(* Properties of SandboxManager called from several threads (checked       *)
(* under ConcurrentSpec)                                                   *)
(***************************************************************************)
\* C21: with destroy_sandbox and cleanup_expired called from several
\* threads, every removal completes without error (a removal of an id
\* another thread is removing included), and an id whose removal returned is
\* absent from the registry.
C21_ConcurrentRemovalsComplete ==
    /\ sb_call.op \in {"destroy_sandbox", "cleanup_expired"} => sb_ret.kind # "raised"
    /\ (sb_call.op = "destroy_sandbox" /\ sb_ret.kind = "returned") =>
          ~IsRegistered(sandboxes, sb_call.id)

(***************************************************************************)
(* Further properties of SandboxManager (checked under SandboxSpec)        *)
(***************************************************************************)
\* C22: when execute_in_sandbox returns timed_out True, no process the call
\* started (the command, or the process inside the container) is still
\* running.
C22_TimedOutProcessTerminated ==
    (Dispatched /\ sb_ret.kind = "result" /\ sb_ret.timed_out) => sb_ret.running = {}

(***************************************************************************)
(* Properties of the construction of PolicyEngine (checked under LoadSpec) *)
(***************************************************************************)
\* the entries of a rule file that are well formed: description present,
\* action a PolicyAction value, pattern a regular expression
WellFormed(rule_data) ==
    /\ rule_data.described
    /\ rule_data.action \in PolicyAction
    /\ rule_data.pattern \notin InvalidPatterns

\* the well-formed entries of the files, file after file, as rules
RECURSIVE WellFormedRules(_)
WellFormedRules(files) ==
    IF files = <<>>
    THEN <<>>
    ELSE LET good == SelectSeq(Head(files).rules, WellFormed)
         IN [k \in 1..Len(good) |->
                PolicyRule(good[k].name, good[k].pattern, good[k].action, good[k].severity)]
            \o WellFormedRules(Tail(files))

\* C24: the construction never fails because of a malformed entry or a file
\* that is not JSON, and the rule set it leaves is the built-in rules
\* followed by every well-formed entry of every file, whether a malformed
\* entry comes before it or not.
C24_MalformedEntriesSkipped ==
    call.op = "init" =>
        /\ call.returned = PyNone
        /\ rules = BuiltinRules \o WellFormedRules(call.files)

\* the variables a sandboxed command may be given: PATH, HOME, USER, the
\* sandbox-id marker and the locale variables
AllowList == {"PATH", "HOME", "USER", "SANDBOX_ID", "LANG", "LC_ALL", "LC_CTYPE"}

\* C26: every command the process-group (chroot) backend runs is given an
\* environment whose variable names all belong to the allow-list.
C26_ChildEnvWithinAllowList ==
    (Dispatched /\ backend = "chroot" /\ sb_ret.kind = "result") => sb_ret.env \subseteq AllowList

\* C27: on every backend, the first execute_in_sandbox on a created sandbox,
\* with the default timeout of 30 s and the command "echo hi", met by no
\* backend failure, returns exit_code 0, the printed text in stdout and
\* timed_out False.
C27_EchoSucceedsOnEveryBackend ==
    (/\ Dispatched
     /\ sb_call.command = "echo hi"
     /\ sb_call.timeout = <<>>
     /\ sb_call.run = "ok"
     /\ sb_ret.timeout = DefaultCommandTimeout
     /\ sandboxes[sb_call.id].command_count = 1) =>
        /\ sb_ret.kind = "result"
        /\ sb_ret.exit_code = 0
        /\ sb_ret.stdout = "hi\n"
        /\ ~sb_ret.timed_out

\* an execute_in_sandbox call is in flight on the thread: past the lookup
\* and not yet returned
InFlight(t) == threads[t].pc \in {"count", "store", "dispatch", "running"}

\* C28: no step of cleanup_expired takes out of the registry a sandbox, or
\* deletes the directory or the container of a sandbox, on which an
\* execute_in_sandbox call is in flight.
C28_CleanupSparesSandboxInFlight ==
    [][\A t \in Threads, u \in Threads :
          (/\ InFlight(t)
           /\ threads[u].sweeping
           /\ threads[u].id = threads[t].id
           /\ threads'[u] # threads[u]) =>
              /\ IsRegistered(sandboxes, threads[t].id) => IsRegistered(sandboxes', threads[t].id)
              /\ threads[t].id \in temp_dirs => threads[t].id \in temp_dirs'
              /\ threads[t].id \in containers => threads[t].id \in containers']_vars


\* C30: every registered sandbox's config carries the user id of the
\* create_sandbox call that made the sandbox (the one its id was built
\* from), and create_sandbox changes no SandboxConfig that a sandbox made
\* earlier refers to, also when the caller passes one SandboxConfig object
\* to several calls.
C30_ConfigKeepsCreatingUser ==
    \A sid \in DOMAIN sandboxes : configs[sandboxes[sid].config].user_id = sid.user

====
